---------------------------- MODULE Spec2Model ----------------------------
(***************************************************************************)
(* A model of orgmunge's in-memory document classes (src/classes.py):      *)
(* the Heading tree with promote / demote and their recursive variants,    *)
(* Scheduling with its keyword descriptor and merge, and the Headline      *)
(* with its todo keyword, Priority and Cookie.                             *)
(*                                                                         *)
(* Python objects are modelled by value: a Heading is a node number, and   *)
(* its fields are the functions level, parent, children and sibling.  An    *)
(* exception is the outcome of a call: the fields hold whatever the call   *)
(* had assigned before it raised.                                          *)
(***************************************************************************)
EXTENDS Integers, Sequences, FiniteSets, TLC

\* Largest number of headings of a document (the root heading not counted).
MaxHeadings == 4

\* Largest number of calls made on one tree.
MaxCalls == 4

\* Largest number given to a Cookie as m or n.
MaxCookie == 3

\* Python's None, for a parent, a sibling marker or a field of a value object.
None == 0

\* Heading._children = None (distinct from the empty list []): no node is 0,
\* so no children list equals <<None>>.
NoList == <<None>>

\* The root heading of a document.
Root == 1

\* None in a field that holds a string.
NoneStr == "None"

VARIABLES
    level,      \* level[n]:    Heading.level = Headline._level of node n
    parent,     \* parent[n]:   Heading._parent   (None or a node)
    children,   \* children[n]: Heading._children (NoList or a sequence of nodes)
    sibling,    \* sibling[n]:  Heading._sibling  (None or a node)
    op,         \* the last call on the tree: <<name, node>>
    err,        \* its outcome: "ok" or the exception it raised
    pre,        \* the tree as it was before the last call
    asm,        \* whether pre is a tree as the assembler leaves it
    prev,       \* the call before the last: its [op, err, asm]
    calls       \* the number of calls made so far

treeVars == <<level, parent, children, sibling, op, err, pre, asm, prev, calls>>

VARIABLES
    ts,         \* ts[i]: the fields of TimeStamp object i
    sched,      \* sched[o]: the keywords of Scheduling object o, each None
                \* or a TimeStamp object
    res,        \* what the last call returned: the keywords of a new
                \* Scheduling, or NoSched
    sop,        \* the last call on a Scheduling: <<name, object, keyword, value>>
    serr,       \* its outcome: "ok" or the exception it raised
    spre        \* before the last call: [kw, st], the value of the keyword
                \* it assigns and the fields of the TimeStamp it is given

schedVars == <<ts, sched, res, sop, serr, spre>>

VARIABLES
    todo,       \* Headline._todo: NoneStr or a keyword
    priority,   \* Headline._priority: NoneStr, or the letter of its Priority
    hop,        \* the last call on the Headline: <<name, value>>
    herr,       \* its outcome: "ok" or the exception it raised
    hpre        \* before the last call: [todo, priority], and op, the name
                \* of the call before it

headVars == <<todo, priority, hop, herr, hpre>>

VARIABLES
    cookie,     \* the Cookie: [cookie_type, m, n]
    cop,        \* the last call on the Cookie: <<name, value>>
    cerr,       \* its outcome: "ok" or the exception it raised
    cpre        \* the Cookie as it was before the last call

cookieVars == <<cookie, cop, cerr, cpre>>

VARIABLES
    rop,        \* the last function applied to a value: its name
    rarg,       \* the value it was applied to
    rout        \* what it returned

renderVars == <<rop, rarg, rout>>

VARIABLES
    stamp,      \* the fields of one TimeStamp object
    top,        \* the last assignment to it: <<attribute, value>>
    terr,       \* its outcome: "ok" or the exception it raised
    tpre        \* the fields of the TimeStamp before the last assignment

stampVars == <<stamp, top, terr, tpre>>

VARIABLES
    hdrawers,    \* Heading._drawers of one Heading: a sequence of Drawers
    hproperties, \* Heading._properties: the items of the dict
    edited,      \* whether the dict was changed since the Heading was built
    pop,         \* the last call on the Heading: <<name, value>>
    pout,        \* its outcome: [err, val], val what `drawers` returned
    ppre         \* _drawers and _properties before the last call

propVars == <<hdrawers, hproperties, edited, pop, pout, ppre>>

vars == <<treeVars, schedVars, headVars, cookieVars, renderVars, stampVars, propVars>>

-----------------------------------------------------------------------------
(* Python values *)

\* bool(x) of a list-or-None: None and [] are false.
Truthy(c) == c # NoList /\ c # <<>>

\* The elements of a children field, none for None.
Items(c) == IF c = NoList THEN <<>> ELSE c

Max(a, b) == IF a >= b THEN a ELSE b

Range(s) == {s[i] : i \in DOMAIN s}

\* list.index(x): the first position of x (1-based here), 0 when x is absent
\* (Python raises ValueError).
Index(s, x) ==
    IF x \in Range(s) THEN CHOOSE i \in DOMAIN s : s[i] = x /\ \A j \in 1..(i-1) : s[j] # x
    ELSE 0

\* [c for c in s if c is not x]
RECURSIVE Without(_, _)
Without(s, x) ==
    IF s = <<>> THEN <<>>
    ELSE IF Head(s) = x THEN Without(Tail(s), x)
    ELSE <<Head(s)>> \o Without(Tail(s), x)

\* The outcome of a call: the tree it leaves and the exception, if any.
Ok(t) == [t |-> t, err |-> "ok"]

Raise(t, e) == [t |-> t, err |-> e]

-----------------------------------------------------------------------------
(* Headline.promote / Headline.demote *)

Headline_promote(lv) == Max(lv - 1, 1)

Headline_demote(lv) == lv + 1

-----------------------------------------------------------------------------
(* Heading.add_child / Heading.remove_child *)

\* add_child that ignores the sibling marker and inserts at the front.
add_child_front(t, p, h, new) ==
    IF Truthy(t.children[p])
    THEN Ok([t EXCEPT !.children[p] = IF new THEN Append(@, h) ELSE <<h>> \o @])
    ELSE Ok([t EXCEPT !.children[p] = <<h>>])

add_child(t, p, h, new) ==
    IF new
    THEN IF Truthy(t.children[p])
         THEN Ok([t EXCEPT !.children[p] = Append(@, h)])
         ELSE Ok([t EXCEPT !.children[p] = <<h>>])
    ELSE IF Truthy(t.children[p])
         THEN IF t.sibling[h] # None
              THEN LET idx == Index(t.children[p], t.sibling[h])
                   IN  IF idx = 0
                       THEN Raise(t, "GrandParentValueError")
                       ELSE Ok([t EXCEPT !.children[p] =
                                   SubSeq(@, 1, idx) \o <<h>> \o SubSeq(@, idx + 1, Len(@))])
              ELSE Ok([t EXCEPT !.children[p] = <<h>> \o @])
         ELSE Ok([t EXCEPT !.children[p] = <<h>>])

\* remove_child that removes nothing.
remove_child_nothing(t, p, c) == t

\* Heading.remove_child
remove_child(t, p, c) ==
    IF Truthy(t.children[p])
    THEN [t EXCEPT !.children[p] = Without(@, c)]
    ELSE t

-----------------------------------------------------------------------------
(* Heading.promote *)

\* promote without its guard against orphaning the children.
promote_orphans_unguarded(t, n) == FALSE

\* `if self.children: raise TypeError(...)`
promote_orphans(t, n) == Truthy(t.children[n])

\* `for s in next_siblings: self.sibling.remove_child(s)`
RECURSIVE promote_remove(_, _, _, _)
promote_remove(t, n, list, i) ==
    IF i > Len(list) THEN Ok(t)
    ELSE IF t.sibling[n] = None THEN Raise(t, "AttributeError")
    ELSE promote_remove(remove_child(t, t.sibling[n], list[i]), n, list, i + 1)

\* The end of promote without `self.parent.add_child(self)`.
promote_attach_no_add(t, n) ==
    IF t.parent[n] = None THEN Raise(t, "AttributeError")
    ELSE Ok([t EXCEPT !.parent[n] = t.parent[t.parent[n]]])

\* `self.parent = self.parent.parent; self.parent.add_child(self)`
promote_attach(t, n) ==
    IF t.parent[n] = None THEN Raise(t, "AttributeError")
    ELSE LET t1 == [t EXCEPT !.parent[n] = t.parent[t.parent[n]]]
         IN  IF t1.parent[n] = None THEN Raise(t1, "AttributeError")
             ELSE add_child(t1, t1.parent[n], n, FALSE)

\* The statements of promote from `next_siblings = ...` on; idx is the
\* (1-based) position of self in the former parent's children.
promote_relink(t, n, idx) ==
    LET former == t.children[t.sibling[n]]
        next_siblings == SubSeq(former, idx + 1, Len(former))
        t1 == IF next_siblings # <<>>
              THEN LET u == [t EXCEPT !.sibling[next_siblings[1]] = None]
                   IN  [u EXCEPT !.parent = [m \in DOMAIN @ |->
                                   IF m \in Range(next_siblings) THEN n ELSE @[m]]]
              ELSE t
        t2 == [t1 EXCEPT !.children[n] = next_siblings]
    IN  IF t2.sibling[n] = None THEN Raise(t2, "AttributeError")
        ELSE LET r == promote_remove(remove_child(t2, t2.sibling[n], n), n, next_siblings, 1)
             IN  IF r.err # "ok" THEN r ELSE promote_attach(r.t, n)

promote(t, n) ==
    IF promote_orphans(t, n) THEN Raise(t, "OrphanTypeError")
    ELSE LET t1 == [t EXCEPT !.level[n] = Headline_promote(@)]
             t2 == [t1 EXCEPT !.sibling[n] = t1.parent[n]]
             P  == t2.sibling[n]
         IN  IF P = None THEN Raise(t2, "AttributeError")
             ELSE IF t2.children[P] = NoList THEN Raise(t2, "AttributeError")
             ELSE IF Index(t2.children[P], n) = 0 THEN Raise(t2, "IndexValueError")
             ELSE promote_relink(t2, n, Index(t2.children[P], n))

-----------------------------------------------------------------------------
(* Heading.demote *)

\* demote without its guard against a missing sibling marker.
demote_no_target_unguarded(t, n) == FALSE

\* `if not self.sibling: raise ValueError(...)`
demote_no_target(t, n) == t.sibling[n] = None

\* `for child in self.children: child.parent = self.parent;
\*                              self.parent.add_child(child)`
RECURSIVE demote_children(_, _, _, _)
demote_children(t, n, list, i) ==
    IF i > Len(list) THEN Ok(t)
    ELSE LET t1 == [t EXCEPT !.parent[list[i]] = t.parent[n]]
         IN  IF t1.parent[n] = None THEN Raise(t1, "AttributeError")
             ELSE LET r == add_child(t1, t1.parent[n], list[i], FALSE)
                  IN  IF r.err # "ok" THEN r
                      ELSE demote_children(r.t, n, list, i + 1)

\* The statements of demote from `self.parent = self.sibling` on, with the
\* children of the node left as they are.
demote_relink_keeps_children(t, n) ==
    LET t1 == [t EXCEPT !.parent[n] = t.sibling[n]]
        S  == t1.parent[n]
    IN  IF S = None THEN Raise(t1, "AttributeError")
        ELSE add_child([t1 EXCEPT !.sibling[n] =
                           IF Truthy(t1.children[S])
                           THEN t1.children[S][Len(t1.children[S])]
                           ELSE None], S, n, FALSE)

\* The statements of demote from `self.parent = self.sibling` on.
demote_relink(t, n) ==
    LET t1 == [t EXCEPT !.parent[n] = t.sibling[n]]
        S  == t1.parent[n]
    IN  IF S = None THEN Raise(t1, "AttributeError")
        ELSE LET t2 == [t1 EXCEPT !.sibling[n] =
                           IF Truthy(t1.children[S])
                           THEN t1.children[S][Len(t1.children[S])]
                           ELSE None]
                 r  == add_child(t2, S, n, FALSE)
             IN  IF r.err # "ok" THEN r
                 ELSE LET own == r.t.children[n]
                          r2  == IF Truthy(own)
                                 THEN demote_children(
                                        [r.t EXCEPT !.sibling[own[1]] = n], n, own, 1)
                                 ELSE r
                      IN  IF r2.err # "ok" THEN r2
                          ELSE Ok([r2.t EXCEPT !.children[n] = NoList])

demote(t, n) ==
    IF demote_no_target(t, n) THEN Raise(t, "NoSiblingValueError")
    ELSE LET t1 == [t EXCEPT !.level[n] = Headline_demote(@)]
             P  == t1.parent[n]
         IN  IF P = None THEN Raise(t1, "AttributeError")
             ELSE IF t1.children[P] = NoList THEN Raise(t1, "AttributeError")
             ELSE IF Index(t1.children[P], n) = 0 THEN Raise(t1, "IndexValueError")
             ELSE LET idx == Index(t1.children[P], n)
                      ch  == t1.children[P]
                      t2  == IF idx + 1 <= Len(ch)
                             THEN [t1 EXCEPT !.sibling[ch[idx + 1]] = t1.sibling[n]]
                             ELSE t1
                  IN  demote_relink(remove_child(t2, P, n), n)

-----------------------------------------------------------------------------
(* Heading.promote_tree / Heading.demote_tree *)

RECURSIVE promote_tree(_, _)
RECURSIVE promote_tree_each(_, _, _)
promote_tree_each(t, list, i) ==
    IF i > Len(list) THEN Ok(t)
    ELSE LET r == promote_tree(t, list[i])
         IN  IF r.err # "ok" THEN r ELSE promote_tree_each(r.t, list, i + 1)

promote_tree(t, n) ==
    LET children_ == t.children[n]
        r == promote(t, n)
    IN  IF r.err # "ok" THEN r
        ELSE IF Truthy(children_) THEN promote_tree_each(r.t, children_, 1)
        ELSE r

\* demote_tree without the calls on the children.
demote_tree_node_only(t, n) == demote(t, n)

RECURSIVE demote_tree(_, _)
RECURSIVE demote_tree_each(_, _, _)
demote_tree_each(t, list, i) ==
    IF i > Len(list) THEN Ok(t)
    ELSE LET r == demote_tree(t, list[i])
         IN  IF r.err # "ok" THEN r ELSE demote_tree_each(r.t, list, i + 1)

demote_tree(t, n) ==
    LET children_ == t.children[n]
        r == demote(t, n)
    IN  IF r.err # "ok" THEN r
        ELSE IF Truthy(children_) THEN demote_tree_each(r.t, children_, 1)
        ELSE r

-----------------------------------------------------------------------------
(* The tree assembler: headings in document order, linked by their levels *)

\* The level sequences of documents of k headings: the first heading is at
\* level 1 and a heading is at most one level deeper than the one before it.
LevelSeqs(k) ==
    {s \in [1..k -> 1..Max(k, 1)] :
        \A i \in 1..k : IF i = 1 THEN s[i] = 1 ELSE s[i] <= s[i - 1] + 1}

\* Headings as Heading.__init__ leaves them: no parent, children or sibling.
Unlinked(levels) ==
    [level    |-> [n \in 1..(Len(levels) + 1) |-> IF n = Root THEN 0 ELSE levels[n - 1]],
     parent   |-> [n \in 1..(Len(levels) + 1) |-> None],
     children |-> [n \in 1..(Len(levels) + 1) |-> NoList],
     sibling  |-> [n \in 1..(Len(levels) + 1) |-> None]]

\* Node n becomes the last child of the nearest heading before it that has a
\* lower level; its sibling marker is the child that was last until then.
RECURSIVE Assemble(_, _)
Assemble(t, n) ==
    IF n > Len(t.level) THEN t
    ELSE LET p  == CHOOSE j \in 1..(n - 1) :
                      /\ t.level[j] < t.level[n]
                      /\ \A m \in (j + 1)..(n - 1) : t.level[m] >= t.level[n]
             sb == IF Truthy(t.children[p])
                   THEN t.children[p][Len(t.children[p])]
                   ELSE None
             t1 == [t EXCEPT !.parent[n] = p, !.sibling[n] = sb]
         IN  Assemble(add_child(t1, p, n, TRUE).t, n + 1)

-----------------------------------------------------------------------------
(* The heading tree: state and calls *)

Tree == [level |-> level, parent |-> parent, children |-> children, sibling |-> sibling]

Nodes == DOMAIN level

\* t is a tree as the assembler leaves it (Assemble of its own levels): the
\* parent of a heading is the nearest heading before it that has a lower
\* level, children are in document order, and each node's marker is its
\* immediately preceding sibling, None for a first child.  A children field
\* [] counts as None.
Assembled(t) ==
    /\ t.level[Root] = 0
    /\ t.parent[Root] = None
    /\ t.sibling[Root] = None
    /\ \A n \in DOMAIN t.level \ {Root} :
          LET p == t.parent[n]
              s == t.sibling[n]
          IN  /\ t.level[n] >= 1
              /\ p \in 1..(n - 1)
              /\ t.level[p] < t.level[n]
              /\ \A m \in (p + 1)..(n - 1) : t.level[m] >= t.level[n]
              /\ IF s = None
                 THEN \A m \in 1..(n - 1) : t.parent[m] # p
                 ELSE /\ s \in 1..(n - 1)
                      /\ t.parent[s] = p
                      /\ \A m \in (s + 1)..(n - 1) : t.parent[m] # p
    /\ \A n \in DOMAIN t.level :
          LET ch == Items(t.children[n])
          IN  /\ \A i \in 1..(Len(ch) - 1) : ch[i] < ch[i + 1]
              /\ Range(ch) = {m \in DOMAIN t.level : t.parent[m] = n}

TreeInit ==
    /\ \E k \in 0..MaxHeadings : \E levels \in LevelSeqs(k) :
          LET t == Assemble(Unlinked(levels), 2)
          IN  /\ level = t.level
              /\ parent = t.parent
              /\ children = t.children
              /\ sibling = t.sibling
              /\ pre = t
    /\ op = <<"init", None>>
    /\ err = "ok"
    /\ asm = TRUE
    /\ prev = [op |-> <<"init", None>>, err |-> "ok", asm |-> TRUE]
    /\ calls = 0

\* A call and its outcome r; calls are made as long as none has raised.
Call(name, n, r) ==
    /\ err = "ok"
    /\ calls < MaxCalls
    /\ calls' = calls + 1
    /\ op' = <<name, n>>
    /\ err' = r.err
    /\ pre' = Tree
    /\ asm' = Assembled(Tree)
    /\ prev' = [op |-> op, err |-> err, asm |-> asm]
    /\ level' = r.t.level
    /\ parent' = r.t.parent
    /\ children' = r.t.children
    /\ sibling' = r.t.sibling

Promote == \E n \in Nodes : Call("promote", n, promote(Tree, n))

Demote == \E n \in Nodes : Call("demote", n, demote(Tree, n))

PromoteTree == \E n \in Nodes : Call("promote_tree", n, promote_tree(Tree, n))

DemoteTree == \E n \in Nodes : Call("demote_tree", n, demote_tree(Tree, n))

-----------------------------------------------------------------------------
(* TimeStamp values and Scheduling.Keyword.__set__ *)

\* The TimeStamp objects and the Scheduling objects of the model.
StampIds == {1, 2}

SchedIds == {"a", "b"}

\* A value that is neither None nor a TimeStamp (a string, say).
NotAStamp == -1

\* Scheduling.valid_keywords, in order.
valid_keywords == <<"closed", "scheduled", "deadline">>

\* A datetime is a number of minutes, at least 1.
T0900 == 540

T1030 == 630

\* The fields of the stamps parsed from
\*   <2024-01-01 Mon 09:00-10:30 +1w -3d> and [2024-01-01 Mon 09:00-10:30 +1w -3d].
ParsedStamps ==
    {[active |-> TRUE,  start_time |-> T0900, end_time |-> T1030,
      repeater |-> "+1w", deadline_warn |-> "-3d"],
     [active |-> FALSE, start_time |-> T0900, end_time |-> T1030,
      repeater |-> "+1w", deadline_warn |-> "-3d"]}

\* Where no TimeStamp is given: the fields of no stamp.
NoStamp ==
    [active |-> FALSE, start_time |-> None, end_time |-> None,
     repeater |-> NoneStr, deadline_warn |-> NoneStr]

\* Scheduling's class attributes _closed = _scheduled = _deadline = None.
EmptySched == [closed |-> None, scheduled |-> None, deadline |-> None]

\* No Scheduling: `a + b` has returned nothing.
NoSched == [closed |-> NotAStamp, scheduled |-> NotAStamp, deadline |-> NotAStamp]

\* The store a call works on: the stamps, and the keywords of one object.
SOk(h, o) == [ts |-> h, obj |-> o, err |-> "ok"]

SRaise(h, o, e) == [ts |-> h, obj |-> o, err |-> e]

\* A __set__ whose last test, `if self.attr != '_deadline'`, is missing.
Keyword_normalize_keeps_warn(st, attr) ==
    LET s1 == IF attr = "closed"
              THEN [st EXCEPT !.active = FALSE, !.end_time = None,
                              !.repeater = NoneStr, !.deadline_warn = NoneStr]
              ELSE st
    IN  IF attr = "scheduled" \/ attr = "deadline"
        THEN [s1 EXCEPT !.active = TRUE]
        ELSE s1

\* What Keyword.__set__ assigns to the fields of the TimeStamp it is given.
Keyword_normalize(st, attr) ==
    LET s1 == IF attr = "closed"
              THEN [st EXCEPT !.active = FALSE, !.end_time = None,
                              !.repeater = NoneStr, !.deadline_warn = NoneStr]
              ELSE st
        s2 == IF attr = "scheduled" \/ attr = "deadline"
              THEN [s1 EXCEPT !.active = TRUE]
              ELSE s1
    IN  IF attr # "deadline"
        THEN [s2 EXCEPT !.deadline_warn = NoneStr]
        ELSE s2

\* Scheduling.Keyword.__set__(obj, value) of keyword attr.
Keyword_set(h, o, attr, value) ==
    IF value = None
    THEN SOk(h, [o EXCEPT ![attr] = None])
    ELSE IF value \in StampIds
    THEN SOk([h EXCEPT ![value] = Keyword_normalize(@, attr)],
             [o EXCEPT ![attr] = value])
    ELSE SRaise(h, o, "TypeError")

-----------------------------------------------------------------------------
(* Scheduling.__init__ and Scheduling.__add__ *)

\* A keyword text is a sequence of characters.
UpperCase == <<"A", "B", "C", "D", "E", "F", "G", "H", "I", "J", "K", "L", "M",
               "N", "O", "P", "Q", "R", "S", "T", "U", "V", "W", "X", "Y", "Z">>

LowerCase == <<"a", "b", "c", "d", "e", "f", "g", "h", "i", "j", "k", "l", "m",
               "n", "o", "p", "q", "r", "s", "t", "u", "v", "w", "x", "y", "z">>

\* str.lower()
Lower(text) ==
    [i \in DOMAIN text |->
        IF \E j \in DOMAIN UpperCase : UpperCase[j] = text[i]
        THEN LowerCase[CHOOSE j \in DOMAIN UpperCase : UpperCase[j] = text[i]]
        ELSE text[i]]

\* re.sub(r':\s*$', '', text): a colon followed by nothing but white space
\* up to the end is cut off, with that white space.
StripColon(text) ==
    LET tails == {i \in DOMAIN text :
                     /\ text[i] = ":"
                     /\ \A j \in (i + 1)..Len(text) : text[j] \in {" ", "\t", "\n"}}
    IN  IF tails = {} THEN text
        ELSE SubSeq(text, 1, (CHOOSE i \in tails : \A j \in tails : i <= j) - 1)

\* The characters of the valid keywords.
KeywordChars ==
    [closed    |-> <<"c", "l", "o", "s", "e", "d">>,
     scheduled |-> <<"s", "c", "h", "e", "d", "u", "l", "e", "d">>,
     deadline  |-> <<"d", "e", "a", "d", "l", "i", "n", "e">>]

\* The keyword texts given to the constructor: "CLOSED:", "Scheduled: ",
\* "deadline" and "DUE:".
KeywordTexts ==
    {<<"C", "L", "O", "S", "E", "D", ":">>,
     <<"S", "c", "h", "e", "d", "u", "l", "e", "d", ":", " ">>,
     <<"d", "e", "a", "d", "l", "i", "n", "e">>,
     <<"D", "U", "E", ":">>}

\* Scheduling(keyword, timestamp), keyword a text and timestamp not None.
Scheduling_init(h, keyword, timestamp) ==
    LET canonical_keyword == Lower(StripColon(keyword))
        valid == {k \in DOMAIN KeywordChars : KeywordChars[k] = canonical_keyword}
    IN  IF valid = {} THEN SRaise(h, EmptySched, "ValueError")
        ELSE IF timestamp \in StampIds
        THEN Keyword_set(h, EmptySched, CHOOSE k \in valid : TRUE, timestamp)
        ELSE SRaise(h, EmptySched, "TypeError")

\* `for keyword in self.valid_keywords:
\*      setattr(result, keyword, getattr(self, keyword) or getattr(other, keyword) or None)`
RECURSIVE Scheduling_add_result(_, _, _, _, _)
Scheduling_add_result(h, result, self, other, i) ==
    IF i > Len(valid_keywords) THEN SOk(h, result)
    ELSE LET keyword == valid_keywords[i]
             value == IF self[keyword] # None THEN self[keyword] ELSE other[keyword]
             r == Keyword_set(h, result, keyword, value)
         IN  IF r.err # "ok" THEN r
             ELSE Scheduling_add_result(r.ts, r.obj, self, other, i + 1)

\* Scheduling.__add__: iteration i of the loop over valid_keywords, whose
\* body raises or returns; the loop left without either returns nothing.
RECURSIVE Scheduling_add(_, _, _, _)
Scheduling_add(h, self, other, i) ==
    IF i > Len(valid_keywords) THEN SOk(h, NoSched)
    ELSE IF self[valid_keywords[i]] # None /\ other[valid_keywords[i]] # None
    THEN SRaise(h, NoSched, "ValueError")
    ELSE Scheduling_add_result(h, EmptySched, self, other, 1)

-----------------------------------------------------------------------------
(* Scheduling: state and calls *)

SchedInit ==
    /\ ts \in [StampIds -> ParsedStamps]
    /\ sched = [o \in SchedIds |-> EmptySched]
    /\ res = NoSched
    /\ sop = <<"new", "a", "closed", None>>
    /\ serr = "ok"
    /\ spre = [kw |-> None, st |-> NoStamp]

\* No Scheduling is in use.
SchedIdle ==
    /\ ts = [i \in StampIds |-> NoStamp]
    /\ sched = [o \in SchedIds |-> EmptySched]
    /\ res = NoSched
    /\ sop = <<"new", "a", "closed", None>>
    /\ serr = "ok"
    /\ spre = [kw |-> None, st |-> NoStamp]

SchedCall(name, o, attr, value, kw) ==
    /\ sop' = <<name, o, attr, value>>
    /\ spre' = [kw |-> kw, st |-> IF value \in StampIds THEN ts[value] ELSE NoStamp]

\* `a.attr = value`
SetKeyword ==
    \E attr \in DOMAIN EmptySched, value \in StampIds \cup {None, NotAStamp} :
        \E r \in {Keyword_set(ts, sched["a"], attr, value)} :
            /\ SchedCall("set", "a", attr, value, sched["a"][attr])
            /\ ts' = r.ts
            /\ sched' = [sched EXCEPT !["a"] = r.obj]
            /\ serr' = r.err
            /\ res' = NoSched

\* `b = Scheduling(keyword, timestamp)`; b keeps its value when this raises.
Construct ==
    \E keyword \in KeywordTexts, value \in StampIds \cup {NotAStamp} :
        \E r \in {Scheduling_init(ts, keyword, value)} :
            /\ SchedCall("init", "b", keyword, value, None)
            /\ ts' = r.ts
            /\ sched' = IF r.err = "ok" THEN [sched EXCEPT !["b"] = r.obj] ELSE sched
            /\ serr' = r.err
            /\ res' = IF r.err = "ok" THEN r.obj ELSE NoSched

\* `o + p`
Add ==
    \E o \in SchedIds, p \in SchedIds :
        \E r \in {Scheduling_add(ts, sched[o], sched[p], 1)} :
            /\ SchedCall("add", o, p, None, None)
            /\ ts' = r.ts
            /\ sched' = sched
            /\ serr' = r.err
            /\ res' = IF r.err = "ok" THEN r.obj ELSE NoSched

\* No document: a root heading alone, and no call on it.
TreeIdle ==
    /\ level = <<0>>
    /\ parent = <<None>>
    /\ children = <<NoList>>
    /\ sibling = <<None>>
    /\ op = <<"init", None>>
    /\ err = "ok"
    /\ pre = Unlinked(<<>>)
    /\ asm = TRUE
    /\ prev = [op |-> <<"init", None>>, err |-> "ok", asm |-> TRUE]
    /\ calls = 0

-----------------------------------------------------------------------------
(* Priority *)

\* Priority.allowed_values
allowed_values == <<"A", "B", "C">>

\* Priority._parse_priority: the group of re.search("^\[#(.)\]", p), or p; a
\* text is a sequence of characters.
Priority_parse(p) ==
    IF Len(p) >= 4 /\ p[1] = "[" /\ p[2] = "#" /\ p[3] # "\n" /\ p[4] = "]"
    THEN <<p[3]>>
    ELSE p

\* The priority setter: the letter kept, or ValueError.
Priority_set(old, value) ==
    IF Len(value) = 1 /\ value[1] \in Range(allowed_values)
    THEN [priority |-> value[1], err |-> "ok"]
    ELSE [priority |-> old, err |-> "ValueError"]

\* _raise with the modulus left out.
Priority_raise_nowrap(letter) ==
    LET idx == Index(allowed_values, letter) - 1
    IN  IF idx + 1 >= Len(allowed_values)
        THEN [priority |-> letter, err |-> "IndexError"]
        ELSE Priority_set(letter, <<allowed_values[(idx + 1) + 1]>>)

\* Priority._raise; idx is the 0-based index of the letter.
Priority_raise(letter) ==
    LET idx == Index(allowed_values, letter) - 1
    IN  Priority_set(letter, <<allowed_values[((idx + 1) % Len(allowed_values)) + 1]>>)

\* Priority._lower
Priority_lower(letter) ==
    LET idx == Index(allowed_values, letter) - 1
    IN  Priority_set(letter, <<allowed_values[((idx - 1) % Len(allowed_values)) + 1]>>)

-----------------------------------------------------------------------------
(* Headline: todo, done and priority *)

\* The configured keywords (get_todos()): Headline._todo_states and
\* Headline._done_states.
todo_states == <<"TDO">>

done_states == <<"DNE">>

\* Headline.is_done: [val, err]
Headline_is_done(t) ==
    IF t \in Range(done_states) THEN [val |-> TRUE, err |-> "ok"]
    ELSE IF t = NoneStr \/ t \in Range(todo_states) THEN [val |-> FALSE, err |-> "ok"]
    ELSE [val |-> FALSE, err |-> "ValueError"]

\* The done setter: it raises whatever it is given.
Headline_set_done(value) == "AttributeError"

\* The todo setter: [todo, err].  set.union(list, list), in the branch of the
\* unknown keyword, is a TypeError: the ValueError after it is never raised.
Headline_set_todo(old, value) ==
    IF value \notin Range(todo_states) /\ value \notin Range(done_states) /\ value # NoneStr
    THEN [todo |-> old, err |-> "TypeError"]
    ELSE LET d == Headline_is_done(value)
         IN  IF d.err # "ok" THEN [todo |-> value, err |-> d.err]
             ELSE [todo |-> value, err |-> Headline_set_done(d.val)]

\* The Headline priority setter: `Priority(value) if value else None`
Headline_set_priority(old, value) ==
    IF value = <<>> THEN [priority |-> NoneStr, err |-> "ok"]
    ELSE Priority_set(old, Priority_parse(value))

\* Headline.raise_priority / lower_priority: self.priority may be None.
Headline_raise_priority(letter) ==
    IF letter = NoneStr THEN [priority |-> letter, err |-> "AttributeError"]
    ELSE Priority_raise(letter)

Headline_lower_priority(letter) ==
    IF letter = NoneStr THEN [priority |-> letter, err |-> "AttributeError"]
    ELSE Priority_lower(letter)

\* The keywords assigned to todo: those configured, None and one unknown.
TodoValues == {"TDO", "DNE", NoneStr, "WAIT"}

\* The texts assigned to priority: "A", "[#B]", "C", "D", "[#E]" and "" or None.
PriorityTexts ==
    {<<"A">>, <<"[", "#", "B", "]">>, <<"C">>, <<"D">>, <<"[", "#", "E", "]">>, <<>>}

\* Headline(level, todo=...): the constructor keeps any todo as it is given.
HeadInit ==
    /\ todo \in TodoValues
    /\ priority \in {NoneStr} \cup Range(allowed_values)
    /\ hop = <<"new", NoneStr>>
    /\ herr = "ok"
    /\ hpre = [todo |-> todo, priority |-> priority, op |-> "new"]

\* No Headline is in use.
HeadIdle ==
    /\ todo = NoneStr
    /\ priority = NoneStr
    /\ hop = <<"new", NoneStr>>
    /\ herr = "ok"
    /\ hpre = [todo |-> NoneStr, priority |-> NoneStr, op |-> "new"]

HeadCall(name, value) ==
    /\ hop' = <<name, value>>
    /\ hpre' = [todo |-> todo, priority |-> priority, op |-> hop[1]]

\* `headline.todo = value`
SetTodo ==
    \E value \in TodoValues :
        \E r \in {Headline_set_todo(todo, value)} :
            /\ HeadCall("set_todo", value)
            /\ todo' = r.todo
            /\ herr' = r.err
            /\ priority' = priority

\* `headline.done = value`
SetDone ==
    \E value \in BOOLEAN :
        /\ HeadCall("set_done", value)
        /\ herr' = Headline_set_done(value)
        /\ UNCHANGED <<todo, priority>>

\* `headline.priority = value`
SetPriority ==
    \E value \in PriorityTexts :
        \E r \in {Headline_set_priority(priority, value)} :
            /\ HeadCall("set_priority", value)
            /\ priority' = r.priority
            /\ herr' = r.err
            /\ todo' = todo

RaisePriority ==
    \E r \in {Headline_raise_priority(priority)} :
        /\ HeadCall("raise_priority", NoneStr)
        /\ priority' = r.priority
        /\ herr' = r.err
        /\ todo' = todo

LowerPriority ==
    \E r \in {Headline_lower_priority(priority)} :
        /\ HeadCall("lower_priority", NoneStr)
        /\ priority' = r.priority
        /\ herr' = r.err
        /\ todo' = todo

-----------------------------------------------------------------------------
(* Cookie *)

\* A value that is no int (1.5, say).
NotAnInt == -1000

\* int(text) of a sequence of decimal digits.
RECURSIVE DigitsToInt(_)
DigitsToInt(g) ==
    IF g = <<>> THEN 0
    ELSE 10 * DigitsToInt(SubSeq(g, 1, Len(g) - 1)) + g[Len(g)]

\* The largest n a percentage is computed from.
MaxPercent == 100

Abs(x) == IF x >= 0 THEN x ELSE -x

\* The pairs (|m|, |n|), |m| <= |n| <= 100, where the double m/n*100 is
\* smaller in size than the integer part of the exact 100*m/n.
FloatShort == {<<29, 50>>, <<29, 100>>, <<57, 100>>, <<58, 100>>}

\* int(m / n * 100), for |m| <= |n| <= 100: int() truncates towards 0.
TruncPercent(m, n) ==
    LET q == (100 * Abs(m)) \div Abs(n)
             - (IF <<Abs(m), Abs(n)>> \in FloatShort THEN 1 ELSE 0)
    IN  IF (m >= 0) = (n >= 0) THEN q ELSE -q

\* The cookies whose percentage is computed here: int is unbounded, and
\* so are m and n under repeated conversion.
InPercentRange(c) == c.n = 0 \/ (Abs(c.m) <= Abs(c.n) /\ Abs(c.n) <= MaxPercent)

\* Cookie(text).  The text is given by its mark ("%", "/" or neither) and
\* the digits g1 before and g2 after the mark, "" being <<>>.  The ValueError
\* of the last line names the locals m and n, which only the "/" branch
\* binds: elsewhere it is an UnboundLocalError.
Cookie_init(mark, g1, g2) ==
    LET c == IF mark = "%"
             THEN [cookie_type |-> "percent",
                   m |-> IF g1 # <<>> THEN DigitsToInt(g1) ELSE 0, n |-> 100]
             ELSE IF mark = "/"
             THEN [cookie_type |-> "progress",
                   m |-> IF g1 # <<>> THEN DigitsToInt(g1) ELSE 0,
                   n |-> IF g2 # <<>> THEN DigitsToInt(g2) ELSE 0]
             ELSE [cookie_type |-> NoneStr, m |-> 0, n |-> 0]
    IN  IF c.m > c.n
        THEN [cookie |-> c, err |-> IF mark = "/" THEN "ValueError" ELSE "UnboundLocalError"]
        ELSE [cookie |-> c, err |-> "ok"]

\* The m setter with `value > self.n` turned round.
Cookie_set_m_reversed(c, value) ==
    IF value = NotAnInt THEN [cookie |-> c, err |-> "ValueError"]
    ELSE IF value < c.n THEN [cookie |-> c, err |-> "ValueError"]
    ELSE [cookie |-> [c EXCEPT !.m = value], err |-> "ok"]

\* The m setter
Cookie_set_m(c, value) ==
    IF value = NotAnInt THEN [cookie |-> c, err |-> "ValueError"]
    ELSE IF value > c.n THEN [cookie |-> c, err |-> "ValueError"]
    ELSE [cookie |-> [c EXCEPT !.m = value], err |-> "ok"]

\* The n setter
Cookie_set_n(c, value) ==
    IF value = NotAnInt THEN [cookie |-> c, err |-> "ValueError"]
    ELSE IF value < c.m THEN [cookie |-> c, err |-> "ValueError"]
    ELSE [cookie |-> [c EXCEPT !.n = value], err |-> "ok"]

\* The cookie_type setter
Cookie_set_cookie_type(c, new_type) ==
    IF new_type = c.cookie_type THEN [cookie |-> c, err |-> "ok"]
    ELSE IF new_type = "percent"
    THEN IF c.n = 0 THEN [cookie |-> c, err |-> "ZeroDivisionError"]
         ELSE [cookie |-> [cookie_type |-> new_type, m |-> TruncPercent(c.m, c.n), n |-> 100],
               err |-> "ok"]
    ELSE IF new_type = "progress"
    THEN [cookie |-> [c EXCEPT !.cookie_type = new_type], err |-> "ok"]
    ELSE [cookie |-> c, err |-> "ValueError"]

\* The texts a Cookie is made from: [m/n], [/], [m/], [/n], [m%], [%], [150%]
\* and a text with neither mark.
CookieTexts ==
    {<<"/", g1, g2>> : g1 \in {<<>>} \cup {<<d>> : d \in 0..MaxCookie},
                       g2 \in {<<>>} \cup {<<d>> : d \in 0..MaxCookie}}
    \cup {<<"%", g1, <<>> >> : g1 \in {<<>>, <<1, 5, 0>>} \cup {<<d>> : d \in 0..MaxCookie}}
    \cup {<<"", <<>>, <<>> >>}

\* The values assigned to m and n, and to cookie_type.
CookieValues == (-1..MaxCookie) \cup {NotAnInt}

CookieTypes == {"percent", "progress", "fraction", NoneStr}

\* A Cookie that its constructor has returned.
CookieInit ==
    /\ \E text \in CookieTexts :
          /\ Cookie_init(text[1], text[2], text[3]).err = "ok"
          /\ cookie = Cookie_init(text[1], text[2], text[3]).cookie
          /\ cop = <<"new", text>>
    /\ cerr = "ok"
    /\ cpre = cookie

\* No Cookie is in use.
CookieIdle ==
    /\ cookie = [cookie_type |-> NoneStr, m |-> 0, n |-> 0]
    /\ cop = <<"new", <<"", <<>>, <<>> >> >>
    /\ cerr = "ok"
    /\ cpre = cookie

CookieCall(name, value, r) ==
    /\ cop' = <<name, value>>
    /\ cpre' = cookie
    /\ cookie' = r.cookie
    /\ cerr' = r.err

\* `cookie = Cookie(text)`; cookie keeps its value when this raises.
NewCookie ==
    \E text \in CookieTexts :
        \E r \in {Cookie_init(text[1], text[2], text[3])} :
            CookieCall("new", text, [cookie |-> IF r.err = "ok" THEN r.cookie ELSE cookie,
                                     err |-> r.err])

SetM == \E value \in CookieValues : CookieCall("set_m", value, Cookie_set_m(cookie, value))

SetN == \E value \in CookieValues : CookieCall("set_n", value, Cookie_set_n(cookie, value))

SetCookieType ==
    \E value \in CookieTypes :
        /\ InPercentRange(cookie)
        /\ CookieCall("set_cookie_type", value, Cookie_set_cookie_type(cookie, value))

-----------------------------------------------------------------------------
(* TimeStamp.__init__ and TimeStamp.__repr__ *)

\* A text is a sequence of characters; a date, a day of the week, a repeater
\* and a deadline-warning are each kept whole, as one element.
Digits == <<"0", "1", "2", "3", "4", "5", "6", "7", "8", "9">>

\* The calendar: day d of the model, counted from 0, is Dates[d + 1].
Dates == <<[date |-> "2024-01-01", day_of_week |-> "Mon"],
           [date |-> "2024-01-02", day_of_week |-> "Tue"]>>

MinutesPerDay == 1440

\* int() of one decimal digit
DigitValue(c) == Index(Digits, c) - 1

\* A number below 100 as two decimal digits (%H, %M, %02d).
TwoDigits(k) == <<Digits[(k \div 10) + 1], Digits[(k % 10) + 1]>>

\* dt.strptime(date + ' ' + day_of_week + ' ' + time, ORG_TIME_FORMAT), the
\* time being the five characters HH:MM: the minutes since day 0, 00:00.
strptime(date, day_of_week, time) ==
    LET d == CHOOSE i \in DOMAIN Dates : Dates[i].date = date
        hours == 10 * DigitValue(time[1]) + DigitValue(time[2])
        minutes == 10 * DigitValue(time[4]) + DigitValue(time[5])
    IN  (d - 1) * MinutesPerDay + 60 * hours + minutes

\* datetime.strftime(ORG_TIME_FORMAT)
strftime_org(t) ==
    LET d == Dates[(t \div MinutesPerDay) + 1]
        m == t % MinutesPerDay
    IN  <<d.date, " ", d.day_of_week, " ">> \o TwoDigits(m \div 60) \o <<":">>
        \o TwoDigits(m % 60)

\* datetime.strftime("%H-%M")
strftime_end(t) ==
    LET m == t % MinutesPerDay
    IN  TwoDigits(m \div 60) \o <<"-">> \o TwoDigits(m % 60)

\* TimeStamp(timestamp_str).  The text is given by the pattern that matches
\* it (active or not) and by the groups of the match: date, day_of_week,
\* start_time "HH:MM", end_time "-HH:MM" or nothing (<<>>), repeater and
\* deadline_warn (NoneStr where there is none).
TimeStamp_init(g) ==
    [active        |-> g.active,
     start_time    |-> strptime(g.date, g.day_of_week, g.start_time),
     end_time      |-> IF g.end_time # <<>>
                       THEN strptime(g.date, g.day_of_week,
                                     IF g.end_time[1] = "-" THEN Tail(g.end_time)
                                     ELSE g.end_time)
                       ELSE None,
     repeater      |-> g.repeater,
     deadline_warn |-> g.deadline_warn]

\* The part of __repr__ for the end time: f'-{self.end_time.strftime("%H-%M")}'
TimeStamp_end(st) == <<"-">> \o strftime_end(st.end_time)

\* TimeStamp.__repr__
TimeStamp_repr(st) ==
    LET ldelim == IF st.active THEN "<" ELSE "["
        rdelim == IF st.active THEN ">" ELSE "]"
        t1 == strftime_org(st.start_time)
        t2 == IF st.end_time # None THEN t1 \o TimeStamp_end(st) ELSE t1
        t3 == IF st.repeater # NoneStr THEN t2 \o <<" ", st.repeater>> ELSE t2
        t4 == IF st.deadline_warn # NoneStr THEN t3 \o <<" ", st.deadline_warn>> ELSE t3
    IN  <<ldelim>> \o t4 \o <<rdelim>>

\* The literal that the groups g were matched in:
\*   <date day_of_week start_time[end_time][ repeater][ deadline_warn]>
StampLiteral(g) ==
    <<IF g.active THEN "<" ELSE "[">>
    \o <<g.date, " ", g.day_of_week, " ">> \o g.start_time \o g.end_time
    \o (IF g.repeater # NoneStr THEN <<" ", g.repeater>> ELSE <<>>)
    \o (IF g.deadline_warn # NoneStr THEN <<" ", g.deadline_warn>> ELSE <<>>)
    \o <<IF g.active THEN ">" ELSE "]">>

\* The times of day written in the stamps: 00:05, 09:00, 10:30 and 23:59.
ClockTimes ==
    {<<"0", "0", ":", "0", "5">>, <<"0", "9", ":", "0", "0">>,
     <<"1", "0", ":", "3", "0">>, <<"2", "3", ":", "5", "9">>}

\* The groups of the stamps that are parsed: the end time, where there is
\* one, is not before the start time.
StampGroups ==
    {g \in [active : BOOLEAN,
            date : {Dates[i].date : i \in DOMAIN Dates},
            day_of_week : {Dates[i].day_of_week : i \in DOMAIN Dates},
            start_time : ClockTimes,
            end_time : {<<>>} \cup {<<"-">> \o t : t \in ClockTimes},
            repeater : {NoneStr, "+1w"},
            deadline_warn : {NoneStr, "-3d"}] :
        /\ \E i \in DOMAIN Dates : Dates[i].date = g.date /\ Dates[i].day_of_week = g.day_of_week
        /\ g.end_time # <<>> =>
              strptime(g.date, g.day_of_week, g.start_time)
                  <= strptime(g.date, g.day_of_week, Tail(g.end_time))}

-----------------------------------------------------------------------------
(* TimeStamp.start_time and TimeStamp.end_time: the setters *)

\* The outcome of a setter: the fields of the stamp and "ok" or the exception.
TOk(st) == [st |-> st, err |-> "ok"]

TRaise(st, e) == [st |-> st, err |-> e]

\* The values assigned: None, a str "HH:MM", a datetime (minutes since day 0,
\* 00:00) or a value of another type.
StrValue(text) == [kind |-> "str", text |-> text, t |-> None]

DatetimeValue(t) == [kind |-> "datetime", text |-> <<>>, t |-> t]

NoneValue == [kind |-> "None", text |-> <<>>, t |-> None]

IntValue == [kind |-> "int", text |-> <<>>, t |-> None]

\* value.year, value.month and value.day are those of other
SameDate(value, other) == value \div MinutesPerDay = other \div MinutesPerDay

\* dt.strptime(' '.join([old.strftime('%Y-%m-%d %a'), value]), ORG_TIME_FORMAT)
OnDateOf(old, value) ==
    LET d == Dates[(old \div MinutesPerDay) + 1]
    IN  strptime(d.date, d.day_of_week, value)

\* The end of the start_time setter: `if t > self.end_time: raise ... else:
\* self._start_time = t`.  A datetime is not ordered against None.
start_time_store(st, t) ==
    IF st.end_time = None THEN TRaise(st, "TypeError")
    ELSE IF t > st.end_time THEN TRaise(st, "ValueError")
    ELSE TOk([st EXCEPT !.start_time = t])

\* TimeStamp.start_time setter
TimeStamp_set_start_time(st, value) ==
    IF value.kind = "str"
    THEN start_time_store(st, OnDateOf(st.start_time, value.text))
    ELSE IF value.kind = "datetime"
    THEN IF st.end_time = None THEN TRaise(st, "AttributeError")
         ELSE IF ~SameDate(value.t, st.end_time) THEN TRaise(st, "ValueError")
         ELSE start_time_store(st, value.t)
    ELSE TRaise(st, "TypeError")

\* The end of the end_time setter: `if t and t < self.start_time: raise ...
\* elif t: self._end_time = t`.
end_time_store(st, t) ==
    IF t < st.start_time THEN TRaise(st, "ValueError")
    ELSE TOk([st EXCEPT !.end_time = t])

\* TimeStamp.end_time setter
TimeStamp_set_end_time(st, value) ==
    IF value.kind = "None" THEN TOk([st EXCEPT !.end_time = None])
    ELSE IF value.kind = "str"
    THEN IF st.end_time = None THEN TRaise(st, "AttributeError")
         ELSE end_time_store(st, OnDateOf(st.end_time, value.text))
    ELSE IF value.kind = "datetime"
    THEN IF ~SameDate(value.t, st.start_time) THEN TRaise(st, "ValueError")
         ELSE end_time_store(st, value.t)
    ELSE TRaise(st, "TypeError")

\* The values that are assigned: None, the times of day as text, the same
\* times on each date as datetimes, and an int.
StampValues ==
    {NoneValue, IntValue}
    \cup {StrValue(c) : c \in ClockTimes}
    \cup {DatetimeValue(strptime(Dates[i].date, Dates[i].day_of_week, c)) :
             i \in DOMAIN Dates, c \in ClockTimes}

-----------------------------------------------------------------------------
(* One TimeStamp: state and calls *)

\* A TimeStamp as it is parsed.
StampInit ==
    /\ \E g \in StampGroups : stamp = TimeStamp_init(g) /\ tpre = TimeStamp_init(g)
    /\ top = <<"new", NoneValue>>
    /\ terr = "ok"

\* No TimeStamp is in use.
StampIdle ==
    /\ stamp = NoStamp
    /\ top = <<"new", NoneValue>>
    /\ terr = "ok"
    /\ tpre = NoStamp

\* An assignment `stamp.attribute = value` and its outcome r.
StampCall(attribute, value, r) ==
    /\ top' = <<attribute, value>>
    /\ tpre' = stamp
    /\ stamp' = r.st
    /\ terr' = r.err

\* `stamp.start_time = value`
SetStartTime ==
    \E value \in StampValues :
        StampCall("start_time", value, TimeStamp_set_start_time(stamp, value))

\* `stamp.end_time = value`
SetEndTime ==
    \E value \in StampValues :
        StampCall("end_time", value, TimeStamp_set_end_time(stamp, value))

-----------------------------------------------------------------------------
(* Clocking *)

\* Most whole days a clock runs.
MaxDays == 1

SecondsPerDay == 86400

\* str(k) of an int k >= 0
RECURSIVE Decimal(_)
Decimal(k) ==
    IF k < 10 THEN <<Digits[k + 1]>>
    ELSE Decimal(k \div 10) \o <<Digits[(k % 10) + 1]>>

\* f'{hours}:{minutes:02d}' and f'{days}d {hours}:{minutes:02d}'
DeltaText(days, hours, minutes) ==
    IF days = 0
    THEN Decimal(hours) \o <<":">> \o TwoDigits(minutes)
    ELSE Decimal(days) \o <<"d", " ">> \o Decimal(hours) \o <<":">> \o TwoDigits(minutes)

\* The whole part of m after `m, s = total_seconds/60, total_seconds%60` and
\* `if s > 30: m += 1`.  m is a float with the fraction s/60; the floor
\* taken at the end of _display_delta drops that fraction.
Clocking_minutes(total_seconds) ==
    (total_seconds \div 60) + (IF total_seconds % 60 > 30 THEN 1 ELSE 0)

\* Clocking._display_delta(time_delta), time_delta a number of seconds >= 0
Clocking_display_delta(total_seconds) ==
    LET m == Clocking_minutes(total_seconds)
        minutes == m % 60
        hours == (m \div 60) % 24
        days == (m \div 60) \div 24
    IN  DeltaText(days, hours, minutes)

\* Clocking.duration of the clock c, read at the time now; start_time and
\* end_time are in minutes, now is in seconds.
Clocking_duration(c, now) ==
    IF c.end_time = None
    THEN Clocking_display_delta(now - 60 * c.start_time)
    ELSE Clocking_display_delta(60 * (c.end_time - c.start_time))

\* The seconds a clock has run when it is read or closed.
ElapsedSeconds ==
    {SecondsPerDay * d + 60 * mi + sec :
        d \in 0..MaxDays, mi \in {0, 1, 59, 91, 1439}, sec \in {0, 29, 30, 31, 59}}

\* The clocks: started at 09:00; closed a whole number of minutes later, or
\* still open.
Clockings ==
    {[start_time |-> T0900, end_time |-> None]}
    \cup {[start_time |-> T0900, end_time |-> T0900 + (e \div 60)] :
             e \in {x \in ElapsedSeconds : x % 60 = 0}}

-----------------------------------------------------------------------------
(* Heading.clocking *)

\* The CLOCK lines in the LOGBOOK drawer of heading n: the root has no
\* drawers, the headings after it have one line, two lines, none, one, ...
ClockLines(n) == (n - 1) % 3

\* Heading._get_clocking_info: a Clocking per CLOCK line, <<n, i>> being the
\* Clocking of line i of heading n.
get_clocking_info(n) == [i \in 1..ClockLines(n) |-> <<n, i>>]

\* reduce(add, [c._get_clocking_info() for c in children]), children not empty
RECURSIVE reduce_add(_)
reduce_add(cs) ==
    IF Len(cs) = 1 THEN get_clocking_info(cs[1])
    ELSE reduce_add(SubSeq(cs, 1, Len(cs) - 1)) \o get_clocking_info(cs[Len(cs)])

\* Heading.clocking(include_children): [val, err].  `self.children != []`
\* is true of None too, and the comprehension over None is a TypeError.
Heading_clocking(t, n, include_children) ==
    LET own_clocking == get_clocking_info(n)
    IN  IF include_children /\ t.children[n] # <<>>
        THEN IF t.children[n] = NoList
             THEN [val |-> <<>>, err |-> "TypeError"]
             ELSE [val |-> own_clocking \o reduce_add(t.children[n]), err |-> "ok"]
        ELSE [val |-> own_clocking, err |-> "ok"]

-----------------------------------------------------------------------------
(* __repr__ of Cookie, Priority, Headline, Scheduling and Drawer *)

\* ''.join(texts) and sep.join(texts), of a sequence of texts
RECURSIVE Join(_, _)
Join(texts, sep) ==
    IF texts = <<>> THEN <<>>
    ELSE IF Len(texts) = 1 THEN texts[1]
    ELSE texts[1] \o sep \o Join(Tail(texts), sep)

\* Cookie.__repr__
Cookie_repr(c) ==
    IF c.cookie_type = "progress"
    THEN <<"[">> \o Decimal(c.m) \o <<"/">> \o Decimal(c.n) \o <<"]">>
    ELSE <<"[">> \o Decimal(c.m) \o <<"%", "]">>

\* Priority.__repr__
Priority_repr(letter) == <<"[", "#", letter, "]">>

\* Headline.__repr__, of a Headline h at the level given.  The cookie is
\* <<>> (None) or <<c>>; the tags are a sequence of names, <<>> for None.
Headline_repr(h, lv) ==
    LET priority_ == IF h.priority # NoneStr THEN Priority_repr(h.priority) \o <<" ">> ELSE <<>>
        comment == IF h.comment THEN <<"COMMENT", " ">> ELSE <<>>
        todo_ == IF h.todo # NoneStr THEN <<h.todo, " ">> ELSE <<>>
        cookie_ == IF h.cookie # <<>> THEN Cookie_repr(h.cookie[1]) ELSE <<>>
        tags == IF h.tags # <<>>
                THEN <<" ", " ", " ", " ", ":">>
                     \o Join([i \in DOMAIN h.tags |-> <<h.tags[i]>>], <<":">>) \o <<":">>
                ELSE <<>>
    IN  [i \in 1..lv |-> "*"] \o <<" ">> \o todo_ \o comment \o priority_
        \o <<h.title, " ">> \o cookie_ \o tags

\* keyword.upper()
KeywordUpper == [closed |-> "CLOSED", scheduled |-> "SCHEDULED", deadline |-> "DEADLINE"]

\* Scheduling.__repr__; each keyword of sch is <<>> (None) or <<stamp>>.
Scheduling_repr(sch) ==
    LET set == SelectSeq(valid_keywords, LAMBDA k : sch[k] # <<>>)
        data == [i \in DOMAIN set |->
                    <<KeywordUpper[set[i]], ":", " ">> \o TimeStamp_repr(sch[set[i]][1])]
    IN  Join(data, <<" ">>)

\* Drawer(drawer_string): the string is given by its lines (split('\n') of
\* the stripped string), the first being :NAME: and the last :END:.
Drawer_init(lines) ==
    [name     |-> SelectSeq(lines[1], LAMBDA c : c # ":")[1],
     contents |-> SubSeq(lines, 2, Len(lines) - 1)]

\* Drawer.__repr__
Drawer_repr(d) ==
    <<":", d.name, ":", "\n">> \o Join(d.contents, <<"\n">>) \o <<"\n", ":END:", "\n">>

\* A line `:KEY:` + spaces + `VALUE` of a PROPERTIES drawer
PropertyLine(key, pad, value) == <<":", key, ":">> \o [i \in 1..pad |-> " "] \o <<value>>

\* Heading._get_properties_dict: the (key, value) of each line, the groups
\* of r':([^:]+):\s+(.*)'.
get_properties_dict(contents) ==
    [i \in DOMAIN contents |-> [key |-> contents[i][2], value |-> contents[i][Len(contents[i])]]]

\* Heading._get_properties_string, as lines: ":{k}:" + ' ' * 7 + "{v}"
get_properties_string(properties) ==
    [i \in DOMAIN properties |-> PropertyLine(properties[i].key, 7, properties[i].value)]

\* The part of Heading.__init__ that sets _properties: the dict of the first
\* drawer named PROPERTIES, or an empty dict.  A dict is the sequence of its
\* items [key, value], in the order the keys were inserted.
Heading_init_properties(drawers_) ==
    LET properties_drawer == SelectSeq(drawers_, LAMBDA d : d.name = "PROPERTIES")
    IN  IF drawers_ # <<>> /\ properties_drawer # <<>>
        THEN get_properties_dict(properties_drawer[1].contents)
        ELSE <<>>

\* The lines of f":PROPERTIES:\n{self._get_properties_string()}\n:END:":
\* with no property the string between the two marks is empty, and split
\* gives it as one empty line.
updated_properties_lines(properties) ==
    <<<<":", "PROPERTIES", ":">>>>
    \o (IF properties = <<>> THEN <<<<>>>> ELSE get_properties_string(properties))
    \o <<<<":END:">>>>

\* Heading.drawers: the value of _drawers that it stores and returns, from
\* _drawers and _properties as they are; <<>> is None or an empty list.
Heading_get_drawers(drawers_, properties) ==
    LET updated_properties_drawer == Drawer_init(updated_properties_lines(properties))
    IN  IF drawers_ # <<>>
        THEN IF drawers_[1].name = "PROPERTIES"
             THEN <<updated_properties_drawer>> \o Tail(drawers_)
             ELSE drawers_
        ELSE IF properties # <<>> THEN <<updated_properties_drawer>>
        ELSE drawers_

\* Heading.drawers, of a heading built with the drawers given.
Heading_drawers(drawers_) ==
    Heading_get_drawers(drawers_, Heading_init_properties(drawers_))

\* str() of a list of Drawers
DrawerList_str(ds) ==
    <<"[">> \o Join([i \in DOMAIN ds |-> Drawer_repr(ds[i])], <<",", " ">>) \o <<"]">>

-----------------------------------------------------------------------------
(* Heading.properties: the dict and its setter *)

\* The most drawers a heading is built with.
MaxDrawers == 2

\* key in d
HasKey(d, key) == \E i \in DOMAIN d : d[i].key = key

\* d[key] = value: the value of a key that is there is replaced where it
\* is, and a new key comes last.
dict_setitem(d, key, value) ==
    IF HasKey(d, key)
    THEN [i \in DOMAIN d |-> IF d[i].key = key THEN [key |-> key, value |-> value] ELSE d[i]]
    ELSE Append(d, [key |-> key, value |-> value])

\* del d[key], of a key that is there
dict_delitem(d, key) == SelectSeq(d, LAMBDA item : item.key # key)

\* `for key in val: self._properties[key] = val[key]`, from item i on
RECURSIVE properties_update(_, _, _)
properties_update(properties, val, i) ==
    IF i > Len(val) THEN properties
    ELSE properties_update(dict_setitem(properties, val[i].key, val[i].value), val, i + 1)

\* A value that is not a dict: a list, told from the dicts by how it is
\* written here.
NotADict == <<[key |-> "list", value |-> "list"]>>

\* Heading.properties setter
Heading_set_properties(properties, val) ==
    IF val = NotADict THEN [properties |-> properties, err |-> "TypeError"]
    ELSE [properties |-> properties_update(properties, val, 1), err |-> "ok"]

\* The keys and the values of the properties.
PropertyKeys == {"ID", "B"}

PropertyValues == {"a1", "v"}

\* The dicts assigned to `properties`: of no, one and two keys.
PropertyDicts ==
    {<<>>}
    \cup {<<[key |-> k, value |-> v]>> : k \in PropertyKeys, v \in PropertyValues}
    \cup {<<[key |-> "B", value |-> v], [key |-> "ID", value |-> w]>> :
             v \in PropertyValues, w \in PropertyValues}

\* The drawers of the headings: a PROPERTIES drawer with the line `:ID:` + 7
\* spaces + `a1`, one with no line, a LOGBOOK and a NOTES drawer of one line.
DrawerStrings ==
    {<<<<":", "PROPERTIES", ":">>, PropertyLine("ID", 7, "a1"), <<":END:">>>>,
     <<<<":", "PROPERTIES", ":">>, <<":END:">>>>,
     <<<<":", "LOGBOOK", ":">>, <<"note">>, <<":END:">>>>,
     <<<<":", "NOTES", ":">>, <<"text">>, <<":END:">>>>}

\* The drawer lists of the headings: up to MaxDrawers drawers of different
\* names, in any order.
DrawerLists ==
    {ds \in UNION {[1..k -> {Drawer_init(x) : x \in DrawerStrings}] : k \in 0..MaxDrawers} :
        \A i \in DOMAIN ds, j \in DOMAIN ds : i # j => ds[i].name # ds[j].name}

-----------------------------------------------------------------------------
(* One Heading and its properties: state and calls *)

\* A Heading as Heading.__init__ leaves it.
PropInit ==
    /\ \E ds \in DrawerLists :
          /\ hdrawers = ds
          /\ hproperties = Heading_init_properties(ds)
          /\ ppre = [drawers |-> ds, properties |-> Heading_init_properties(ds)]
    /\ edited = FALSE
    /\ pop = <<"new", <<>>>>
    /\ pout = [err |-> "ok", val |-> <<>>]

\* No Heading is in use.
PropIdle ==
    /\ hdrawers = <<>>
    /\ hproperties = <<>>
    /\ edited = FALSE
    /\ pop = <<"new", <<>>>>
    /\ pout = [err |-> "ok", val |-> <<>>]
    /\ ppre = [drawers |-> <<>>, properties |-> <<>>]

PropCall(name, value) ==
    /\ pop' = <<name, value>>
    /\ ppre' = [drawers |-> hdrawers, properties |-> hproperties]

\* `heading.properties = val`
SetProperties ==
    \E val \in PropertyDicts \cup {NotADict} :
        LET r == Heading_set_properties(hproperties, val)
        IN  /\ PropCall("set_properties", val)
            /\ hproperties' = r.properties
            /\ edited' = (edited \/ r.properties # hproperties)
            /\ pout' = [err |-> r.err, val |-> <<>>]
            /\ UNCHANGED hdrawers

\* `del heading.properties[key]`: the getter gives the dict itself
DelProperty ==
    \E key \in PropertyKeys :
        /\ PropCall("del_property", key)
        /\ IF HasKey(hproperties, key)
           THEN /\ hproperties' = dict_delitem(hproperties, key)
                /\ edited' = TRUE
                /\ pout' = [err |-> "ok", val |-> <<>>]
           ELSE /\ pout' = [err |-> "KeyError", val |-> <<>>]
                /\ UNCHANGED <<hproperties, edited>>
        /\ UNCHANGED hdrawers

\* `heading.drawers`
GetDrawers ==
    /\ PropCall("drawers", <<>>)
    /\ hdrawers' = Heading_get_drawers(hdrawers, hproperties)
    /\ pout' = [err |-> "ok", val |-> Heading_get_drawers(hdrawers, hproperties)]
    /\ UNCHANGED <<hproperties, edited>>

-----------------------------------------------------------------------------
(* Heading.__repr__ *)

\* `if len(body) > 80` and `body[:77]`
BodyLimit == 80

BodyKept == 77

\* str.strip(): white space cut off at both ends
RECURSIVE Strip(_)
Strip(text) ==
    IF text = <<>> THEN text
    ELSE IF text[1] \in {" ", "\t", "\n"} THEN Strip(Tail(text))
    ELSE IF text[Len(text)] \in {" ", "\t", "\n"} THEN Strip(SubSeq(text, 1, Len(text) - 1))
    ELSE text

\* The Scheduling built from a scheduling line: `KEYWORD: stamp`.
Scheduling_of(line) ==
    [k \in Range(valid_keywords) |->
        IF k = line.keyword
        THEN <<Keyword_normalize(TimeStamp_init(line.groups), k)>>
        ELSE <<>>]

\* Heading.__repr__ of heading n of the tree t.  units[n - 1] is what the
\* tokenizer gave for heading n: its Headline, its scheduling line (<<>> for
\* None), its drawer strings and its body; a body is a sequence of characters.
RECURSIVE Heading_repr(_, _, _)
Heading_repr(t, units, n) ==
    LET u == units[n - 1]
        scheduling == IF u.scheduling # <<>>
                      THEN Scheduling_repr(Scheduling_of(u.scheduling[1])) \o <<"\n">>
                      ELSE <<>>
        ds == Heading_drawers([i \in DOMAIN u.drawers |-> Drawer_init(u.drawers[i])])
        drawers_ == IF ds # <<>> THEN DrawerList_str(ds) \o <<"\n">> ELSE <<>>
        body0 == IF u.body # <<>> THEN u.body \o <<"\n">> ELSE <<>>
        body == IF Len(body0) > BodyLimit
                THEN Strip(SubSeq(body0, 1, BodyKept)) \o <<".", ".", ".", "\n">>
                ELSE body0
        newline == IF scheduling # <<>> \/ drawers_ # <<>> \/ body # <<>>
                   THEN <<"\n">> ELSE <<>>
        children_ == IF Truthy(t.children[n])
                     THEN Join([i \in DOMAIN t.children[n] |->
                                   Heading_repr(t, units, t.children[n][i])], <<>>)
                     ELSE <<>>
    IN  Headline_repr(u.headline, t.level[n]) \o newline \o scheduling \o drawers_
        \o body \o children_

\* The text of the document that heading n and the headings below it were
\* read from: the headline line as its Headline writes it, then the
\* scheduling line, the drawer strings and the body as the tokenizer gave
\* them, then the headings below.
RECURSIVE HeadingSource(_, _, _)
HeadingSource(t, units, n) ==
    LET u == units[n - 1]
        scheduling == IF u.scheduling # <<>>
                      THEN <<KeywordUpper[u.scheduling[1].keyword], ":", " ">>
                           \o StampLiteral(u.scheduling[1].groups) \o <<"\n">>
                      ELSE <<>>
        drawers_ == Join([i \in DOMAIN u.drawers |->
                             Join(u.drawers[i], <<"\n">>) \o <<"\n">>], <<>>)
        body == IF u.body # <<>> THEN u.body \o <<"\n">> ELSE <<>>
        newline == IF scheduling # <<>> \/ drawers_ # <<>> \/ body # <<>>
                   THEN <<"\n">> ELSE <<>>
        children_ == Join([i \in DOMAIN Items(t.children[n]) |->
                              HeadingSource(t, units, t.children[n][i])], <<>>)
    IN  Headline_repr(u.headline, t.level[n]) \o newline \o scheduling \o drawers_
        \o body \o children_

\* The Headlines of the documents: `Input ` and
\* `TDO COMMENT [#A] Evaluation [1/2]    :x:y:`.
DocHeadlines ==
    {[todo |-> NoneStr, comment |-> FALSE, priority |-> NoneStr, title |-> "Input",
      cookie |-> <<>>, tags |-> <<>>],
     [todo |-> "TDO", comment |-> TRUE, priority |-> "A", title |-> "Evaluation",
      cookie |-> <<[cookie_type |-> "progress", m |-> 1, n |-> 2]>>, tags |-> <<"x", "y">>]}

\* Their scheduling lines: none, or `SCHEDULED: <2024-01-01 Mon 09:00>`.
DocSchedulings ==
    {<<>>,
     <<[keyword |-> "scheduled",
        groups |-> [active |-> TRUE, date |-> "2024-01-01", day_of_week |-> "Mon",
                    start_time |-> <<"0", "9", ":", "0", "0">>, end_time |-> <<>>,
                    repeater |-> NoneStr, deadline_warn |-> NoneStr]]>>}

\* Their drawers: none, a PROPERTIES drawer with the line `:ID:` + 7 spaces +
\* `a1`, the same with 1 space, or a LOGBOOK drawer with one line.
DocDrawers ==
    {<<>>,
     <<<<<<":", "PROPERTIES", ":">>, PropertyLine("ID", 7, "a1"), <<":END:">>>>>>,
     <<<<<<":", "PROPERTIES", ":">>, PropertyLine("ID", 1, "a1"), <<":END:">>>>>>,
     <<<<<<":", "LOGBOOK", ":">>, <<"note">>, <<":END:">>>>>>}

\* Their bodies: of 0, 3, 79 and 80 characters.
DocBodies == {[i \in 1..k |-> "x"] : k \in {0, 3, BodyLimit - 1, BodyLimit}}

DocUnits ==
    [headline : DocHeadlines, scheduling : DocSchedulings, drawers : DocDrawers,
     body : DocBodies]

\* The documents: one heading, or a heading and one below it.
Documents ==
    {[levels |-> <<1>>, units |-> <<u>>] : u \in DocUnits}
    \cup {[levels |-> <<1, 2>>, units |-> <<u, v>>] : u \in DocUnits, v \in DocUnits}

-----------------------------------------------------------------------------
(* Functions applied to values: state and calls *)

\* Nothing is to be rendered.
RenderIdle ==
    /\ rop = "none"
    /\ rarg = <<>>
    /\ rout = <<>>

\* A value is given: the groups of a stamp, a clock and the time it is read
\* at, or a document.
RenderInit ==
    /\ rop = "none"
    /\ rout = <<>>
    /\ \/ \E g \in StampGroups : rarg = [kind |-> "stamp", val |-> g]
       \/ \E c \in Clockings, e \in ElapsedSeconds :
             rarg = [kind |-> "clock", val |-> [clock |-> c, now |-> 60 * c.start_time + e]]
       \/ \E d \in Documents : rarg = [kind |-> "document", val |-> d]

\* `repr(TimeStamp(text))`
RenderStamp ==
    /\ rop = "none"
    /\ rarg.kind = "stamp"
    /\ rop' = "TimeStamp_repr"
    /\ rarg' = rarg
    /\ rout' = TimeStamp_repr(TimeStamp_init(rarg.val))

\* `clocking.duration`
ReadDuration ==
    /\ rop = "none"
    /\ rarg.kind = "clock"
    /\ rop' = "duration"
    /\ rarg' = rarg
    /\ rout' = Clocking_duration(rarg.val.clock, rarg.val.now)

\* `repr(heading)`, heading the first of the parsed document
RenderDocument ==
    /\ rop = "none"
    /\ rarg.kind = "document"
    /\ rop' = "Heading_repr"
    /\ rarg' = rarg
    /\ rout' = Heading_repr(Assemble(Unlinked(rarg.val.levels), 2), rarg.val.units, 2)

\* `heading.clocking(include_children)`
ReadClocking ==
    \E n \in Nodes, include_children \in BOOLEAN :
        /\ rop' = "clocking"
        /\ rarg' = <<n, include_children>>
        /\ rout' = Heading_clocking(Tree, n, include_children)

-----------------------------------------------------------------------------
(* The specifications *)

\* The heading tree.
Init == TreeInit /\ SchedIdle /\ HeadIdle /\ CookieIdle /\ RenderIdle /\ StampIdle /\ PropIdle

Next ==
    \/ (Promote /\ UNCHANGED <<schedVars, headVars, cookieVars, renderVars, stampVars, propVars>>)
    \/ (Demote /\ UNCHANGED <<schedVars, headVars, cookieVars, renderVars, stampVars, propVars>>)
    \/ (PromoteTree /\ UNCHANGED <<schedVars, headVars, cookieVars, renderVars, stampVars, propVars>>)
    \/ (DemoteTree /\ UNCHANGED <<schedVars, headVars, cookieVars, renderVars, stampVars, propVars>>)

Spec == Init /\ [][Next]_vars

\* The Scheduling objects a and b and the TimeStamps given to them.
InitSched == TreeIdle /\ SchedInit /\ HeadIdle /\ CookieIdle /\ RenderIdle /\ StampIdle /\ PropIdle

NextSched ==
    \/ (SetKeyword /\ UNCHANGED <<treeVars, headVars, cookieVars, renderVars, stampVars, propVars>>)
    \/ (Construct /\ UNCHANGED <<treeVars, headVars, cookieVars, renderVars, stampVars, propVars>>)
    \/ (Add /\ UNCHANGED <<treeVars, headVars, cookieVars, renderVars, stampVars, propVars>>)

SpecSched == InitSched /\ [][NextSched]_vars

\* One Headline: its todo keyword and its priority.
InitHeadline == TreeIdle /\ SchedIdle /\ HeadInit /\ CookieIdle /\ RenderIdle /\ StampIdle /\ PropIdle

NextHeadline ==
    \/ (SetTodo /\ UNCHANGED <<treeVars, schedVars, cookieVars, renderVars, stampVars, propVars>>)
    \/ (SetDone /\ UNCHANGED <<treeVars, schedVars, cookieVars, renderVars, stampVars, propVars>>)
    \/ (SetPriority /\ UNCHANGED <<treeVars, schedVars, cookieVars, renderVars, stampVars, propVars>>)
    \/ (RaisePriority /\ UNCHANGED <<treeVars, schedVars, cookieVars, renderVars, stampVars, propVars>>)
    \/ (LowerPriority /\ UNCHANGED <<treeVars, schedVars, cookieVars, renderVars, stampVars, propVars>>)

SpecHeadline == InitHeadline /\ [][NextHeadline]_vars

\* One Cookie.
InitCookie == TreeIdle /\ SchedIdle /\ HeadIdle /\ CookieInit /\ RenderIdle /\ StampIdle /\ PropIdle

NextCookie ==
    \/ (NewCookie /\ UNCHANGED <<treeVars, schedVars, headVars, renderVars, stampVars, propVars>>)
    \/ (SetM /\ UNCHANGED <<treeVars, schedVars, headVars, renderVars, stampVars, propVars>>)
    \/ (SetN /\ UNCHANGED <<treeVars, schedVars, headVars, renderVars, stampVars, propVars>>)
    \/ (SetCookieType /\ UNCHANGED <<treeVars, schedVars, headVars, renderVars, stampVars, propVars>>)

SpecCookie == InitCookie /\ [][NextCookie]_vars

\* Values parsed and rendered.
InitRender == TreeIdle /\ SchedIdle /\ HeadIdle /\ CookieIdle /\ RenderInit /\ StampIdle /\ PropIdle

NextRender ==
    \/ (RenderStamp /\ UNCHANGED <<treeVars, schedVars, headVars, cookieVars, stampVars, propVars>>)
    \/ (ReadDuration /\ UNCHANGED <<treeVars, schedVars, headVars, cookieVars, stampVars, propVars>>)
    \/ (RenderDocument /\ UNCHANGED <<treeVars, schedVars, headVars, cookieVars, stampVars, propVars>>)

SpecRender == InitRender /\ [][NextRender]_vars

\* The clock entries of a parsed document.
InitClocking == TreeInit /\ SchedIdle /\ HeadIdle /\ CookieIdle /\ RenderIdle /\ StampIdle /\ PropIdle

NextClocking ==
    \/ (ReadClocking /\ UNCHANGED <<treeVars, schedVars, headVars, cookieVars, stampVars, propVars>>)

SpecClocking == InitClocking /\ [][NextClocking]_vars

\* One TimeStamp and the assignments to its start and end.
InitStamp == TreeIdle /\ SchedIdle /\ HeadIdle /\ CookieIdle /\ RenderIdle /\ StampInit /\ PropIdle

NextStamp ==
    \/ (SetStartTime /\ UNCHANGED <<treeVars, schedVars, headVars, cookieVars, renderVars, propVars>>)
    \/ (SetEndTime /\ UNCHANGED <<treeVars, schedVars, headVars, cookieVars, renderVars, propVars>>)

SpecStamp == InitStamp /\ [][NextStamp]_vars

\* One Heading, its properties and its drawers.
InitProperties ==
    TreeIdle /\ SchedIdle /\ HeadIdle /\ CookieIdle /\ RenderIdle /\ StampIdle /\ PropInit

NextProperties ==
    \/ (SetProperties /\ UNCHANGED <<treeVars, schedVars, headVars, cookieVars, renderVars, stampVars>>)
    \/ (DelProperty /\ UNCHANGED <<treeVars, schedVars, headVars, cookieVars, renderVars, stampVars>>)
    \/ (GetDrawers /\ UNCHANGED <<treeVars, schedVars, headVars, cookieVars, renderVars, stampVars>>)

SpecProperties == InitProperties /\ [][NextProperties]_vars

-----------------------------------------------------------------------------
(* Properties of the heading tree *)

\* Every field of every node is what it was before the last call.
Unchanged == Tree = pre

\* Level, parent and ordered children agree, [] counting the same as None.
SameShape(t, u) ==
    /\ t.level = u.level
    /\ t.parent = u.parent
    /\ \A n \in DOMAIN t.level : Items(t.children[n]) = Items(u.children[n])

HasGrandparent(t, n) == t.parent[n] # None /\ t.parent[t.parent[n]] # None

\* The nodes below n: its children, their children, and so on.
RECURSIVE Descendants(_, _)
Descendants(t, n) ==
    LET ch == Range(Items(t.children[n]))
    IN  ch \cup UNION {Descendants(t, c) : c \in ch}

\* C1: promote(node) on a node with at least one child raises the orphaning
\* error and leaves level, parent, children and sibling of every node as they
\* were before the call.
C1_PromoteWithChildrenFails ==
    \A n \in Nodes :
        (op = <<"promote", n>> /\ Truthy(pre.children[n]))
            => (err = "OrphanTypeError" /\ Unchanged)

C1_Witness ==
    \E n \in Nodes :
        /\ op = <<"promote", n>>
        /\ Truthy(pre.children[n])
        /\ HasGrandparent(pre, n)
        /\ err = "OrphanTypeError"

\* C2: demote(node) on a node whose sibling marker is None raises the
\* no-target error and leaves level, parent, children and sibling of every
\* node as they were before the call.
C2_DemoteWithoutSiblingFails ==
    \A n \in Nodes :
        (op = <<"demote", n>> /\ pre.sibling[n] = None)
            => (err = "NoSiblingValueError" /\ Unchanged)

C2_Witness ==
    \E n \in Nodes :
        /\ op = <<"demote", n>>
        /\ pre.sibling[n] = None
        /\ pre.parent[n] # None
        /\ err = "NoSiblingValueError"

\* C3: promote(node) on a childless node without a parent, or whose parent
\* has no parent, raises and leaves level, parent, children and sibling of
\* every node as they were before the call.
C3_PromoteWithoutGrandparentAtomic ==
    \A n \in Nodes :
        (/\ op = <<"promote", n>>
         /\ ~Truthy(pre.children[n])
         /\ ~HasGrandparent(pre, n))
            => (err # "ok" /\ Unchanged)

\* C4: promote_tree(node) on a node with children, a parent and a grandparent
\* completes without error, and the node and all the descendants it had
\* before the call end one level higher (level decreased by 1).
C4_PromoteTreeRaisesSubtree ==
    \A n \in Nodes :
        (/\ op = <<"promote_tree", n>>
         /\ Truthy(pre.children[n])
         /\ HasGrandparent(pre, n))
            => (/\ err = "ok"
                /\ \A m \in {n} \cup Descendants(pre, n) : level[m] = pre.level[m] - 1)

\* C5: inverse law.  On a tree as the assembler leaves it, for a
\* childless node with a parent and a grandparent, promote then demote
\* restores level, parent and ordered children of every node; for a
\* childless node with a preceding sibling, demote then promote does.
C5_InverseLaw ==
    [][\A n \in Nodes :
        /\ (/\ op = <<"promote", n>>
            /\ op' = <<"demote", n>>
            /\ err = "ok"
            /\ asm
            /\ ~Truthy(pre.children[n])
            /\ HasGrandparent(pre, n))
              => (err' = "ok" /\ SameShape(Tree', pre))
        /\ (/\ op = <<"demote", n>>
            /\ op' = <<"promote", n>>
            /\ err = "ok"
            /\ asm
            /\ ~Truthy(pre.children[n])
            /\ pre.sibling[n] # None)
              => (err' = "ok" /\ SameShape(Tree', pre))]_vars

\* promote pulled the younger siblings of the node under it, and demote
\* has handed them back.
C5_Witness ==
    \E n \in Nodes :
        /\ prev.op = <<"promote", n>>
        /\ prev.err = "ok"
        /\ prev.asm
        /\ op = <<"demote", n>>
        /\ err = "ok"
        /\ Truthy(pre.children[n])
        /\ HasGrandparent(Tree, n)


\* The elements of the list before, and after, its first element x.
Preceding(list, x) == SubSeq(list, 1, Index(list, x) - 1)

Following(list, x) == SubSeq(list, Index(list, x) + 1, Len(list))

\* x is in the list, and y is the element next after it.
NextAfter(list, x, y) == \E i \in 1..(Len(list) - 1) : list[i] = x /\ list[i + 1] = y

\* C15: after a successful promote(node) of a childless node with parent P
\* and grandparent G, node's level is one less (never below 1); node's
\* children are the elements that followed node in P's children, in order,
\* each with parent node and the first with no sibling marker; P's children
\* are the elements that preceded node; node's parent is G and node is next
\* after P in G's children; node's sibling marker is P.
C15_PromoteRelinks ==
    \A n \in Nodes :
        (op = <<"promote", n>> /\ err = "ok") =>
            LET P == pre.parent[n]
                G == pre.parent[P]
                following == Following(Items(pre.children[P]), n)
            IN  /\ level[n] = Max(pre.level[n] - 1, 1)
                /\ Items(children[n]) = following
                /\ \A i \in DOMAIN following : parent[following[i]] = n
                /\ following # <<>> => sibling[following[1]] = None
                /\ Items(children[P]) = Preceding(Items(pre.children[P]), n)
                /\ parent[n] = G
                /\ NextAfter(Items(children[G]), P, n)
                /\ sibling[n] = P

\* A promote has taken the heading that followed the node with it and has
\* left the heading that preceded it.
C15_Witness ==
    \E n \in Nodes :
        /\ op = <<"promote", n>>
        /\ err = "ok"
        /\ Len(Items(children[n])) >= 1
        /\ Len(Items(children[pre.parent[n]])) >= 1
        /\ parent[n] = pre.parent[pre.parent[n]]

C17_DemoteRelinks ==
    \A n \in Nodes :
        (op = <<"demote", n>> /\ err = "ok") =>
            LET S == pre.sibling[n]
                P == pre.parent[n]
                before == Items(pre.children[S])
                after == Items(children[S])
                following == Following(Items(pre.children[P]), n)
            IN  /\ level[n] = pre.level[n] + 1
                /\ n \notin Range(Items(children[P]))
                /\ parent[n] = S
                /\ n \in Range(after)
                /\ \A c \in Range(before) :
                      c \in Range(after) /\ Index(after, c) < Index(after, n)
                /\ sibling[n] = IF before # <<>> THEN before[Len(before)] ELSE None
                /\ following # <<>> => sibling[following[1]] = S

\* C18: demote_tree(node), node having a preceding sibling S in a tree as
\* the assembler leaves it, completes without error and demotes each node of
\* node's subtree once: afterwards node is a child of S, every node of the
\* subtree has a level one greater, and inside the subtree every node has
\* the parent and the ordered children it had before.
C18_DemoteTreeKeepsSubtree ==
    \A n \in Nodes :
        (op = <<"demote_tree", n>> /\ asm /\ pre.sibling[n] # None) =>
            LET S == pre.sibling[n]
                below == Descendants(pre, n)
            IN  /\ err = "ok"
                /\ parent[n] = S
                /\ n \in Range(Items(children[S]))
                /\ \A d \in below \cup {n} :
                      /\ level[d] = pre.level[d] + 1
                      /\ Items(children[d]) = Items(pre.children[d])
                /\ \A d \in below : parent[d] = pre.parent[d]

\* A subtree of three levels was demoted.
C18_Witness ==
    \E n \in Nodes :
        /\ op = <<"demote_tree", n>>
        /\ asm
        /\ err = "ok"
        /\ \E c \in Range(Items(children[n])) : Truthy(children[c])

\* The headings from n on, depth first, a heading before its children; no
\* deeper than depth levels below n.
RECURSIVE PreOrder(_, _, _)
PreOrder(t, n, depth) ==
    IF depth = 0 THEN <<n>>
    ELSE <<n>> \o Join([i \in DOMAIN Items(t.children[n]) |->
                           PreOrder(t, t.children[n][i], depth - 1)], <<>>)

\* The headings in the order of the document: they are numbered in it.
DocumentOrder == [i \in 1..Len(level) |-> i]

\* C19: the order of the document is kept: after any sequence of successful
\* promote, demote, promote_tree and demote_tree calls on a tree as the
\* assembler leaves it, the headings taken depth first, a heading before its
\* children, come in the order they had at the start.
C19_DocumentOrderKept ==
    err = "ok" => PreOrder(Tree, Root, Len(level)) = DocumentOrder

\* The nodes on the way from n up, by at most k parent links.
RECURSIVE Ancestors(_, _, _)
Ancestors(t, n, k) ==
    IF k = 0 \/ t.parent[n] = None THEN {}
    ELSE {t.parent[n]} \cup Ancestors(t, t.parent[n], k - 1)

LevelConsistent(t) ==
    \A n \in DOMAIN t.level :
        t.parent[n] # None => t.level[n] = t.level[t.parent[n]] + 1

\* C21: levels stay consistent with depth: if before a successful promote or
\* demote every node with a parent has its parent's level plus one, so has
\* every node after the call, and every heading but the root stays at level 1
\* or more.
C21_LevelsFollowDepth ==
    (op[1] \in {"promote", "demote"} /\ err = "ok" /\ LevelConsistent(pre)) =>
        /\ LevelConsistent(Tree)
        /\ \A n \in Nodes \ {Root} : level[n] >= 1

-----------------------------------------------------------------------------
(* Properties of Scheduling *)

\* Both operands of the last `o + p` define keyword k.
BothDefine(k) == sched[sop[2]][k] # None /\ sched[sop[3]][k] # None

\* C6: a + b fails whenever both operands define the same keyword, whichever
\* of closed, scheduled and deadline it is; otherwise it succeeds and its
\* result holds, for every keyword, the stamp of the operand that defines it,
\* and none if neither does.
C6_MergeFailsOnAnySharedKeyword ==
    sop[1] = "add" =>
        IF \E k \in Range(valid_keywords) : BothDefine(k)
        THEN serr # "ok"
        ELSE /\ serr = "ok"
             /\ \A k \in Range(valid_keywords) :
                   res[k] = IF sched[sop[2]][k] # None
                            THEN sched[sop[2]][k]
                            ELSE sched[sop[3]][k]

\* The stamp `now` is the stamp `was` as keyword k normalises it.
NormalizedUnder(k, was, now) ==
    /\ now.start_time = was.start_time
    /\ k = "closed" =>
          /\ now.active = FALSE
          /\ now.end_time = None
          /\ now.repeater = NoneStr
          /\ now.deadline_warn = NoneStr
    /\ k = "scheduled" =>
          /\ now.active = TRUE
          /\ now.deadline_warn = NoneStr
          /\ now.end_time = was.end_time
          /\ now.repeater = was.repeater
    /\ k = "deadline" =>
          /\ now.active = TRUE
          /\ now.deadline_warn = was.deadline_warn
          /\ now.end_time = was.end_time
          /\ now.repeater = was.repeater

\* C8: a TimeStamp assigned to a keyword, by assignment or by the constructor,
\* is normalised: inactive with end time, repeater and deadline-warning
\* cleared under closed; active with deadline-warning cleared under scheduled;
\* active with its deadline-warning kept under deadline.  A value that is
\* neither a TimeStamp nor None raises TypeError and the keyword keeps its
\* value.
C8_AssignmentNormalizesStamp ==
    /\ (sop[1] = "set" /\ sop[4] \in StampIds) =>
          /\ serr = "ok"
          /\ sched["a"][sop[3]] = sop[4]
          /\ NormalizedUnder(sop[3], spre.st, ts[sop[4]])
    /\ (sop[1] = "set" /\ sop[4] = NotAStamp) =>
          /\ serr = "TypeError"
          /\ sched["a"][sop[3]] = spre.kw
    /\ (sop[1] = "init" /\ serr = "ok") =>
          \E k \in Range(valid_keywords) :
              /\ KeywordChars[k] = Lower(StripColon(sop[3]))
              /\ sched["b"][k] = sop[4]
              /\ NormalizedUnder(k, spre.st, ts[sop[4]])

\* An inactive stamp with a deadline-warning has been assigned to scheduled.
C8_Witness ==
    /\ sop[1] = "set"
    /\ sop[3] = "scheduled"
    /\ sop[4] \in StampIds
    /\ serr = "ok"
    /\ spre.st.active = FALSE
    /\ spre.st.deadline_warn = "-3d"
    /\ ts[sop[4]].active = TRUE
    /\ ts[sop[4]].deadline_warn = NoneStr

-----------------------------------------------------------------------------
(* Properties of the Headline *)

\* C7: assigning to todo a keyword of the todo set or of the done set, or
\* None, completes without error, and done is then true exactly when the
\* keyword is in the done set; assigning a keyword of neither set raises
\* ValueError and leaves todo as it was; assigning to done always fails.
C7_TodoAssignment ==
    /\ (hop[1] = "set_todo" /\ hop[2] \in Range(todo_states) \cup Range(done_states) \cup {NoneStr}) =>
          /\ herr = "ok"
          /\ todo = hop[2]
          /\ Headline_is_done(todo).val = (hop[2] \in Range(done_states))
    /\ (hop[1] = "set_todo" /\ hop[2] \notin Range(todo_states) \cup Range(done_states) \cup {NoneStr}) =>
          /\ herr = "ValueError"
          /\ todo = hpre.todo
    /\ hop[1] = "set_done" => herr # "ok"

\* The allowed value after, and before, a letter, in the cyclic order.
NextAllowed(letter) == IF letter = "A" THEN "B" ELSE IF letter = "B" THEN "C" ELSE "A"

PrevAllowed(letter) == IF letter = "A" THEN "C" ELSE IF letter = "B" THEN "A" ELSE "B"

\* What a raise or a lower of a Headline that has a priority leaves.
RaiseLowerStep ==
    /\ (hop[1] = "raise_priority" /\ hpre.priority # NoneStr) =>
          /\ herr = "ok"
          /\ priority = NextAllowed(hpre.priority)
          /\ priority \in Range(allowed_values)
    /\ (hop[1] = "lower_priority" /\ hpre.priority # NoneStr) =>
          /\ herr = "ok"
          /\ priority = PrevAllowed(hpre.priority)
          /\ priority \in Range(allowed_values)

\* A lower that follows a raise, and a raise that follows a lower, restore
\* the priority held before the two.
RaiseLowerInverse ==
    /\ (hop[1] = "raise_priority" /\ herr = "ok" /\ hop'[1] = "lower_priority") =>
          priority' = hpre.priority
    /\ (hop[1] = "lower_priority" /\ herr = "ok" /\ hop'[1] = "raise_priority") =>
          priority' = hpre.priority

\* C9: raise moves to the next allowed value and wraps from C to A, lower
\* moves to the previous one and wraps from A to C; raise then lower, and
\* lower then raise, is the identity; the priority stays in the allowed set.
C9_PriorityCycles == [](RaiseLowerStep) /\ [][RaiseLowerInverse]_vars

\* A raise has wrapped from C to A and the lower after it from A back to C.
C9_Witness ==
    /\ hop[1] = "lower_priority"
    /\ hpre.op = "raise_priority"
    /\ hpre.priority = "A"
    /\ herr = "ok"
    /\ priority = "C"

-----------------------------------------------------------------------------
(* Properties of the Cookie *)

\* C10: a Cookie that was constructed, and to which m, n and cookie_type were
\* assigned with success, has 0 <= m <= n; a construction or an assignment
\* that would make m exceed n raises ValueError and leaves m and n as they
\* were.
C10_CookieBounds ==
    /\ cerr = "ok" => (0 <= cookie.m /\ cookie.m <= cookie.n)
    /\ (cop[1] = "set_m" /\ cop[2] # NotAnInt /\ cop[2] > cpre.n) =>
          (cerr = "ValueError" /\ cookie = cpre)
    /\ (cop[1] = "set_n" /\ cop[2] # NotAnInt /\ cop[2] < cpre.m) =>
          (cerr = "ValueError" /\ cookie = cpre)
    /\ (cop[1] = "new" /\ Cookie_init(cop[2][1], cop[2][2], cop[2][3]).cookie.m
                          > Cookie_init(cop[2][1], cop[2][2], cop[2][3]).cookie.n) =>
          (cerr = "ValueError" /\ cookie = cpre)

\* A progress cookie with 0 <= m <= n.
ValidProgress(c) == c.cookie_type = "progress" /\ 0 <= c.m /\ c.m <= c.n

\* C23: assigning "percent" to the cookie_type of a valid progress cookie
\* (0 <= m <= n, n = 0 as parsed from [/] included) succeeds, with m the
\* floor of 100*m/n and n = 100; assigning "progress" changes the kind
\* alone; assigning any other kind raises ValueError and leaves kind, m and
\* n as they were.
C23_KindChange ==
    cop[1] = "set_cookie_type" =>
        /\ (cop[2] = "percent" /\ ValidProgress(cpre)) =>
              /\ cerr = "ok"
              /\ cookie.cookie_type = "percent"
              /\ cookie.n = 100
              /\ cpre.n # 0 => cookie.m = (100 * cpre.m) \div cpre.n
        /\ cop[2] = "progress" =>
              (cerr = "ok" /\ cookie = [cpre EXCEPT !.cookie_type = "progress"])
        /\ (cop[2] \notin {"percent", "progress"} /\ cop[2] # cpre.cookie_type) =>
              (cerr = "ValueError" /\ cookie = cpre)

-----------------------------------------------------------------------------
(* Properties of rendering *)

\* C11: a TimeStamp with an end time renders, inside the brackets of its
\* literal, as the start date and time, a dash and the end time as HH:MM, so
\* that an unmodified stamp renders to the literal it was parsed from.
C11_StampWithEndRendersLiteral ==
    (rop = "TimeStamp_repr" /\ rarg.val.end_time # <<>>) => rout = StampLiteral(rarg.val)

\* The seconds the clock of the last `duration` had run.
Elapsed ==
    IF rarg.val.clock.end_time = None
    THEN rarg.val.now - 60 * rarg.val.clock.start_time
    ELSE 60 * (rarg.val.clock.end_time - rarg.val.clock.start_time)

\* C12: the duration is the elapsed seconds rounded to the nearest minute, a
\* remainder of exactly 30 s rounded up, written as H:MM with hours 0..23 and
\* minutes 00..59 when it is less than a day and as Dd H:MM otherwise.
C12_DurationRoundsHalfUp ==
    rop = "duration" =>
        LET m == (Elapsed + 30) \div 60
        IN  rout = DeltaText(m \div 1440, (m \div 60) % 24, m % 60)

\* C13: clocking(include_children=True) returns the heading's own entries
\* followed by the entries of all its descendants, at every depth, and just
\* its own entries, without error, when it has no children;
\* clocking(include_children=False) returns its own entries only.
C13_ClockingIncludesDescendants ==
    rop = "clocking" =>
        LET n == rarg[1]
            own == get_clocking_info(n)
            below == UNION {Range(get_clocking_info(d)) : d \in Descendants(Tree, n)}
        IN  /\ rout.err = "ok"
            /\ SubSeq(rout.val, 1, Len(own)) = own
            /\ IF rarg[2]
               THEN /\ Range(rout.val) = Range(own) \cup below
                    /\ Len(rout.val) = Cardinality(Range(own) \cup below)
               ELSE rout.val = own

\* C14: rendering the heading tree of a tokenized document whose fields were
\* not changed (each heading's headline, scheduling, drawers and body, then
\* its children, depth first) gives back the source text, whatever the length
\* of a body, the spacing of a property and the cookies and tags present.
C14_RoundTrip ==
    rop = "Heading_repr" =>
        rout = HeadingSource(Assemble(Unlinked(rarg.val.levels), 2), rarg.val.units, 2)

-----------------------------------------------------------------------------
(* Properties of the TimeStamp setters *)

\* The end, where there is one, is on the date of the start and not before it.
StartBeforeEnd(st) ==
    st.end_time # None =>
        SameDate(st.start_time, st.end_time) /\ st.start_time <= st.end_time

\* What an assignment of a str or a datetime asks for: the new start and end,
\* a str being a time of day on the date the stamp has.
Asked ==
    LET value == top[2]
        date == tpre.start_time
        t == IF value.kind = "str" THEN OnDateOf(date, value.text) ELSE value.t
    IN  IF top[1] = "start_time"
        THEN [tpre EXCEPT !.start_time = t]
        ELSE [tpre EXCEPT !.end_time = t]

\* C22: a TimeStamp, with or without an end time, keeps start <= end on one
\* date: assigning a str time of day to start_time or end_time gives a value
\* on the date the stamp has and succeeds whenever start <= end is kept; an
\* assignment that puts the end before the start, or a datetime on another
\* date than its counterpart, raises ValueError and changes neither.
C22_AssignmentKeepsStartBeforeEnd ==
    /\ StartBeforeEnd(stamp)
    /\ (top[1] \in {"start_time", "end_time"} /\ top[2].kind = "str") =>
           IF StartBeforeEnd(Asked)
           THEN terr = "ok" /\ stamp = Asked
           ELSE terr = "ValueError" /\ stamp = tpre
    /\ (top[1] \in {"start_time", "end_time"} /\ top[2].kind = "datetime"
            /\ ~StartBeforeEnd(Asked)) =>
           terr = "ValueError" /\ stamp = tpre

-----------------------------------------------------------------------------
(* Properties of Heading.drawers *)

\* What a drawer decodes to: the (key, value) of its lines, an empty line
\* giving none.
Decoded(d) ==
    Range(get_properties_dict(SelectSeq(d.contents, LAMBDA line : line # <<>>)))

\* The drawers of a list that are, or are not, the PROPERTIES drawer.
Named(ds) == SelectSeq(ds, LAMBDA d : d.name = "PROPERTIES")

Others(ds) == SelectSeq(ds, LAMBDA d : d.name # "PROPERTIES")

\* C24: after an edit of a Heading's properties, `drawers` returns a list
\* whose PROPERTIES drawer decodes to the properties as they are, wherever
\* that drawer stands among the drawers, and also when the heading has other
\* drawers and had no PROPERTIES drawer; the other drawers are returned as
\* they were and in their order.
C24_DrawersShowProperties ==
    (pop[1] = "drawers" /\ edited) =>
        /\ hproperties # <<>> => Named(pout.val) # <<>>
        /\ \A i \in DOMAIN Named(pout.val) :
              Decoded(Named(pout.val)[i]) = Range(hproperties)
        /\ Others(pout.val) = Others(ppre.drawers)

=============================================================================
